---- MODULE Spec2Model ----
(***************************************************************************)
(* A model of the two programs of the repository:                          *)
(*                                                                         *)
(*   experiment_scripts/run_slurm_precompute_train_hypotheses.py           *)
(*       the shard-and-submit launcher (LauncherSpec)                      *)
(*   trainers/corrector.py                                                 *)
(*       CorrectorTrainer: __init__, generate, compute_loss,               *)
(*       prediction_step (Spec)                                            *)
(*                                                                         *)
(* The two never run in one process, so each has its own specification;    *)
(* under either one the other program's variables stay at their initial    *)
(* values.                                                                 *)
(***************************************************************************)
EXTENDS Integers, Sequences, FiniteSets, TLC

VARIABLES
    \* ---- launcher ----
    ACTUALLY_RUN_COMMAND,  \* the module-level toggle (line 15), edited in source
    lpc,                   \* position of the script: "loop", "run_cmd", "done", "raised"
    i,                     \* the loop variable of `for i in range(N_SHARDS)`
    cmd,                   \* the formatted command of the current shard
    job_desc,              \* the job description of the current shard
    submitted,             \* the jobs handed to Slurm(...).run, in order
    stdout,                \* the lines printed, in order
    \* ---- corrector trainer ----
    tpc,                   \* "new", "idle", "batch", "returned", "assert_failed"
    inv_model,             \* inversion_trainer.model: requires_grad per parameter, the flag
    inv_args,              \* inversion_trainer.args: fp16, bf16
    self,                  \* the CorrectorTrainer instance, or NoTrainer
    inputs,                \* the caller's batch mapping (mutated in place by the trainer)
    inputs_before,         \* the caller's batch mapping as it was when the call was made
    call,                  \* the call in progress / last made: op, generation_kwargs
    calls,                 \* the calls the operation made to its collaborators, in order
    ret,                   \* the value the operation returned
    grad_enabled           \* torch's global gradient-tracking mode

launcherVars == <<ACTUALLY_RUN_COMMAND, lpc, i, cmd, job_desc, submitted, stdout>>

trainerVars ==
    <<tpc, inv_model, inv_args, self, inputs, inputs_before, call, calls, ret,
      grad_enabled>>

vars == <<launcherVars, trainerVars>>

None == [op |-> "None"]

(***************************************************************************)
(*                              THE LAUNCHER                               *)
(***************************************************************************)

MSMARCO_LENGTH == 8753404

N_SHARDS == 32

\* math.ceil(a / b) for integers a >= 0, b > 0.  Python divides in binary
\* floating point; for the values used here (below 2^53, the quotient either
\* an integer or at least 1/b away from one) the rounded quotient has the
\* ceiling of the exact one.
CeilDivFloor(a, b) == a \div b

CeilDiv(a, b) == (a + b - 1) \div b

shard_length == CeilDiv(MSMARCO_LENGTH, N_SHARDS)

\* BASE_PYTHON_CMD.format(start_idx=..., num_samples=...).replace("\n", " "):
\* the command line with its two integer arguments.
BASE_PYTHON_CMD(start_idx, num_samples) ==
    [prog |-> "python precompute_train_hypotheses.py",
     start_idx |-> start_idx,
     num_samples |-> num_samples]

\* ".".join(map(str, ["msmarco_precompute", start_idx, shard_length]))
JobDesc(start_idx, length) == <<"msmarco_precompute", start_idx, length>>

\* The Slurm(...) object of run_cmd and the script handed to its run().  The
\* timestamp that prefixes the job name is the wall clock's and is left out.
SlurmJob(desc, c) ==
    [job_desc |-> desc,
     cmd |-> c,
     slurm_kwargs |-> [partition |-> "gpu,rush", gres |-> "gpu:a6000:1",
                       ntasks |-> 1, cpus_per_task |-> 4, mem |-> "48G",
                       time |-> "168:00:00"],
     slurm_flags |-> {"requeue"}]

LauncherIdle ==
    /\ ACTUALLY_RUN_COMMAND = TRUE
    /\ lpc = "off"
    /\ i = 0
    /\ cmd = None
    /\ job_desc = None
    /\ submitted = << >>
    /\ stdout = << >>

\* The script as it starts.  The toggle ships as True and is edited in the
\* source for a dry run, so both values are initial states.
LauncherInit ==
    /\ ACTUALLY_RUN_COMMAND \in BOOLEAN
    /\ lpc = "loop"
    /\ i = 0
    /\ cmd = None
    /\ job_desc = None
    /\ submitted = << >>
    /\ stdout = << >>

\* Lines 60-67: one pass of the loop body up to the call of run_cmd.
LoopBody ==
    /\ lpc = "loop"
    /\ i < N_SHARDS
    /\ cmd' = BASE_PYTHON_CMD(i * shard_length, shard_length)
    /\ job_desc' = JobDesc(i * shard_length, shard_length)
    /\ lpc' = "run_cmd"
    /\ UNCHANGED <<ACTUALLY_RUN_COMMAND, i, submitted, stdout>>

\* A run_cmd that swallows a failed submission and goes on to the next shard.
run_cmd_swallow ==
    /\ lpc = "run_cmd"
    /\ \E outcome \in {"ok", "raise"} :
         LET printed == stdout \o <<[line |-> "job_name >>", job_desc |-> job_desc],
                                    [line |-> "cmd >>", cmd |-> cmd]>>
         IN  /\ submitted' = IF ACTUALLY_RUN_COMMAND /\ outcome = "ok"
                             THEN Append(submitted, SlurmJob(job_desc, cmd))
                             ELSE submitted
             /\ stdout' = Append(printed, [line |-> "blank"])
             /\ i' = i + 1
             /\ lpc' = "loop"
    /\ UNCHANGED <<ACTUALLY_RUN_COMMAND, cmd, job_desc>>

\* A run_cmd that submits whatever the toggle says.
run_cmd_always ==
    /\ lpc = "run_cmd"
    /\ \E outcome \in {"ok", "raise"} :
         LET printed == stdout \o <<[line |-> "job_name >>", job_desc |-> job_desc],
                                    [line |-> "cmd >>", cmd |-> cmd]>>
         IN  IF outcome = "raise"
             THEN /\ stdout' = printed
                  /\ lpc' = "raised"
                  /\ UNCHANGED <<i, submitted>>
             ELSE /\ submitted' = Append(submitted, SlurmJob(job_desc, cmd))
                  /\ stdout' = Append(printed, [line |-> "blank"])
                  /\ i' = i + 1
                  /\ lpc' = "loop"
    /\ UNCHANGED <<ACTUALLY_RUN_COMMAND, cmd, job_desc>>

\* Lines 16-52 (and the loop's step to the next i): run_cmd(cmd, job_desc).
\* Slurm(...).run(...) either returns or raises; nothing catches what it
\* raises, so the script ends there.
run_cmd ==
    /\ lpc = "run_cmd"
    /\ \E outcome \in {"ok", "raise"} :
         LET printed == stdout \o <<[line |-> "job_name >>", job_desc |-> job_desc],
                                    [line |-> "cmd >>", cmd |-> cmd]>>
         IN  IF ACTUALLY_RUN_COMMAND /\ outcome = "raise"
             THEN /\ stdout' = printed
                  /\ lpc' = "raised"
                  /\ UNCHANGED <<i, submitted>>
             ELSE /\ submitted' = IF ACTUALLY_RUN_COMMAND
                                  THEN Append(submitted, SlurmJob(job_desc, cmd))
                                  ELSE submitted
                  /\ stdout' = Append(printed, [line |-> "blank"])
                  /\ i' = i + 1
                  /\ lpc' = "loop"
    /\ UNCHANGED <<ACTUALLY_RUN_COMMAND, cmd, job_desc>>

\* Lines 71-74: the final message, once the loop is exhausted.
FinalMessage ==
    /\ lpc = "loop"
    /\ i = N_SHARDS
    /\ stdout' = Append(stdout, [line |-> "successfully queued",
                                 jobs |-> N_SHARDS,
                                 pretend |-> ~ACTUALLY_RUN_COMMAND])
    /\ lpc' = "done"
    /\ UNCHANGED <<ACTUALLY_RUN_COMMAND, i, cmd, job_desc, submitted>>

LauncherNext ==
    \/ LoopBody /\ UNCHANGED trainerVars
    \/ run_cmd /\ UNCHANGED trainerVars
    \/ FinalMessage /\ UNCHANGED trainerVars

(***************************************************************************)
(*                         THE CORRECTOR TRAINER                           *)
(***************************************************************************)

\* Bounds of the model.
NumParams == 2

MaxBatch == 2

MaxSeqLen == 2

MaxHypLen == 2

\* inversion_trainer.model.embedder_tokenizer's special tokens (the values
\* of the T5 tokenizer) and the tokens a generated hypothesis is made of.
pad_token_id == 0

eos_token_id == 1

Vocab == {pad_token_id, eos_token_id + 1}

\* self.args.device
device == "cuda"

\* TrainingArguments: the two precision flags the constructor compares (a
\* TrainingArguments with both set cannot be built).
ArgsSet == {a \in [fp16 : BOOLEAN, bf16 : BOOLEAN] : ~(a.fp16 /\ a.bf16)}

NoTrainer == [op |-> "NoTrainer"]

\* ---- tensors ----------------------------------------------------------
\* A tensor is a record that says where it comes from (op) and, where the
\* code fixes its content, what it holds (val, a sequence of rows).

\* A tensor of the collated batch.
BatchTensor(f, shape, dev) ==
    [op |-> "batch", field |-> f, shape |-> shape, device |-> dev]

\* value.to(self.args.device)
To(t, dev) == IF "device" \in DOMAIN t THEN [t EXCEPT !.device = dev] ELSE t

\* torch.ones((batch_size, seq_length), device=self.args.device)
Ones(b, l) ==
    [op |-> "ones", device |-> device,
     val |-> [r \in 1..b |-> [c \in 1..l |-> 1]]]

\* The shape of a tensor's content.
Shape(val) == <<Len(val), IF Len(val) = 0 THEN 0 ELSE Len(val[1])>>

\* ---- collaborators (outside this file; only what a call is given and the
\* ---- result as a term over it are recorded) ----------------------------

\* inversion_trainer.model.call_embedding_model(input_ids, attention_mask)
call_embedding_model(ids, mask) ==
    [op |-> "call_embedding_model", input_ids |-> ids, attention_mask |-> mask]

\* self.model(embedding, input_ids, attention_mask): the correction model
Corrector(embedding, ids, mask) ==
    [op |-> "self.model", embedding |-> embedding, input_ids |-> ids,
     attention_mask |-> mask]

\* inversion_trainer.generate(inputs, generation_kwargs)
InversionTrainerGenerate(inp, kw) ==
    [op |-> "inversion_trainer.generate", inputs |-> inp,
     generation_kwargs |-> kw]

\* inversion_trainer.model.generate(inputs, generation_kwargs): the result
\* holds whatever token ids (val) the decoder produced.
ModelGenerate(inp, kw, val) ==
    [op |-> "inversion_trainer.model.generate", inputs |-> inp,
     generation_kwargs |-> kw, val |-> val]

\* inversion_trainer.model(embedder_input_ids, embedder_attention_mask,
\* labels, frozen_embeddings)
InversionModelForward(ids, mask, labels, frozen) ==
    [op |-> "inversion_trainer.model", embedder_input_ids |-> ids,
     embedder_attention_mask |-> mask, labels |-> labels,
     frozen_embeddings |-> frozen]

\* models.model_utils.freeze_params(model): requires_grad = False for every
\* parameter.
freeze_params(requires_grad) == [p \in DOMAIN requires_grad |-> FALSE]

\* One entry of the log of calls: the callee, what it was given, what it
\* returned, and torch's gradient mode while it ran.
Call(fn, args, result, grad) ==
    [fn |-> fn, args |-> args, result |-> result, grad |-> grad]

\* ---- __init__ ---------------------------------------------------------

\* A constructor that forgets to switch the model to frozen embeddings.
InvModelAfterInitNoFlag(m) ==
    [m EXCEPT !.requires_grad = freeze_params(m.requires_grad)]

\* Lines 29 and 33: what the constructor does to inversion_trainer.model.
InvModelAfterInit(m) ==
    [requires_grad |-> freeze_params(m.requires_grad),
     use_frozen_embeddings_as_input |-> TRUE]

\* Lines 46-47: the two assertions.
PrecisionMatches(args) ==
    /\ args.fp16 = inv_args.fp16
    /\ args.bf16 = inv_args.bf16

\* Lines 22-47: CorrectorTrainer(model, inversion_trainer, args).  The model
\* is frozen and flagged (29, 33) before the assertions (46, 47) run; when
\* one fails the constructor raises and the caller gets no instance.
CorrectorTrainer(args) ==
    /\ tpc = "new"
    /\ inv_model' = InvModelAfterInit(inv_model)
    /\ IF PrecisionMatches(args)
       THEN /\ self' = [op |-> "CorrectorTrainer", args |-> args]
            /\ tpc' = "idle"
       ELSE /\ self' = NoTrainer
            /\ tpc' = "assert_failed"
    /\ UNCHANGED <<inv_args, inputs, inputs_before, call, calls, ret, grad_enabled>>

\* ---- the harness ------------------------------------------------------

\* The batches inversion_trainer.data_collator yields, on the CPU: the five
\* fields, and sometimes a precomputed frozen_embeddings.
Batch(b, l, withFrozen) ==
    LET base == [input_ids |-> BatchTensor("input_ids", <<b, l>>, "cpu"),
                 attention_mask |-> BatchTensor("attention_mask", <<b, l>>, "cpu"),
                 embedder_input_ids |->
                     BatchTensor("embedder_input_ids", <<b, l>>, "cpu"),
                 embedder_attention_mask |->
                     BatchTensor("embedder_attention_mask", <<b, l>>, "cpu"),
                 labels |-> BatchTensor("labels", <<b, l>>, "cpu")]
    IN  IF withFrozen
        THEN ("frozen_embeddings" :>
                 BatchTensor("frozen_embeddings", <<b>>, "cpu")) @@ base
        ELSE base

Batches ==
    {Batch(b, l, wf) : b \in 1..MaxBatch, l \in 1..MaxSeqLen, wf \in BOOLEAN}

\* The decoding configurations a caller of generate passes.
GenerationKwargsSet ==
    {[num_beams |-> 1, do_sample |-> FALSE], [num_beams |-> 4, do_sample |-> TRUE]}

\* The harness draws the next batch and decides whether the step runs under
\* torch.no_grad() (evaluation) or with gradients (training).
NextBatch ==
    /\ tpc = "idle"
    /\ \E batch \in Batches, g \in BOOLEAN :
         /\ inputs' = batch
         /\ inputs_before' = batch
         /\ grad_enabled' = g
    /\ tpc' = "batch"
    /\ call' = None
    /\ calls' = << >>
    /\ ret' = None
    /\ UNCHANGED <<inv_model, inv_args, self>>

\* The harness takes the result and goes on to the next step.
Continue ==
    /\ tpc = "returned"
    /\ tpc' = "idle"
    /\ inputs' = None
    /\ inputs_before' = None
    /\ call' = None
    /\ calls' = << >>
    /\ ret' = None
    /\ grad_enabled' = TRUE
    /\ UNCHANGED <<inv_model, inv_args, self>>

\* ---- generate ---------------------------------------------------------

\* Lines 51-54 and 83-86: the embedding of the real embedder inputs.
FrozenEmbeddings(inp) ==
    call_embedding_model(inp.embedder_input_ids, inp.embedder_attention_mask)

\* Lines 55-59: the correction model on the frozen embedding and the
\* batch's own input_ids / attention_mask.
GenerateNewEmbeddings(inp) ==
    Corrector(FrozenEmbeddings(inp), inp.input_ids, inp.attention_mask)

\* A generate that hands the raw frozen embedding on.
GenerateInputsRaw(inp) ==
    ("frozen_embeddings" :> FrozenEmbeddings(inp)) @@ inp

\* Line 60: inputs["frozen_embeddings"] = new_embeddings, on the caller's
\* own mapping.
GenerateInputs(inp) ==
    ("frozen_embeddings" :> GenerateNewEmbeddings(inp)) @@ inp

\* Lines 50-64: the calls generate makes.  The with torch.no_grad() block
\* holds the first two; the call of inversion_trainer.generate (62-64) is
\* after the block, under the mode generate was entered with.
GenerateCalls(inp, kw, g) ==
    <<Call("call_embedding_model",
           [input_ids |-> inp.embedder_input_ids,
            attention_mask |-> inp.embedder_attention_mask],
           FrozenEmbeddings(inp), FALSE),
      Call("self.model",
           [embedding |-> FrozenEmbeddings(inp), input_ids |-> inp.input_ids,
            attention_mask |-> inp.attention_mask],
           GenerateNewEmbeddings(inp), FALSE),
      Call("inversion_trainer.generate",
           [inputs |-> GenerateInputs(inp), generation_kwargs |-> kw],
           InversionTrainerGenerate(GenerateInputs(inp), kw), g)>>

\* Lines 49-64: generate(inputs, generation_kwargs).
generate ==
    /\ tpc = "batch"
    /\ \E kw \in GenerationKwargsSet :
         /\ call' = [op |-> "generate", generation_kwargs |-> kw]
         /\ calls' = GenerateCalls(inputs, kw, grad_enabled)
         /\ ret' = calls'[Len(calls')].result
    /\ inputs' = GenerateInputs(inputs)
    /\ tpc' = "returned"
    \* torch.no_grad() restores, on exit, the mode it was entered with
    /\ UNCHANGED <<inv_model, inv_args, self, inputs_before, grad_enabled>>

\* ---- compute_loss -----------------------------------------------------

\* Lines 73-80: the fake embedder tensors, shaped by inputs["input_ids"].
FakeEmbedderInputs(inp) == Ones(inp.input_ids.shape[1], inp.input_ids.shape[2])

\* Lines 94-99: the fixed decoding settings.
LossGenerationKwargs ==
    [early_stopping |-> FALSE, num_beams |-> 1, do_sample |-> FALSE,
     no_repeat_ngram_size |-> 3]

\* Lines 88-100: the hypothesis, generated from the fake embedder inputs
\* and the frozen embedding; val is what the decoder produced.
Hypothesis(inp, val) ==
    ModelGenerate([embedder_input_ids |-> FakeEmbedderInputs(inp),
                   embedder_attention_mask |-> FakeEmbedderInputs(inp),
                   frozen_embeddings |-> FrozenEmbeddings(inp)],
                  LossGenerationKwargs, val)

\* A transform that appends the EOS column without dropping the first one.
HypothesisInputIdsKeepFirst(hyp) ==
    [op |-> "cat", src |-> hyp,
     val |-> [r \in DOMAIN hyp.val |-> Append(hyp.val[r], eos_token_id)]]

\* Lines 101-108: torch.cat((hypothesis_input_ids[:, 1:], eos_tokens), dim=1)
HypothesisInputIds(hyp) ==
    [op |-> "cat", src |-> hyp,
     val |-> [r \in DOMAIN hyp.val |->
                 Append(SubSeq(hyp.val[r], 2, Len(hyp.val[r])), eos_token_id)]]

\* Lines 110-112: hypothesis_input_ids != pad_token_id
HypothesisAttentionMask(ids) ==
    [op |-> "ne", src |-> ids,
     val |-> [r \in DOMAIN ids.val |->
                 [c \in DOMAIN ids.val[r] |-> ids.val[r][c] # pad_token_id]]]

\* A correction-model call that is given the real embedder inputs.
LossNewEmbeddingsCheating(inp, val) ==
    Corrector(FrozenEmbeddings(inp), inp.embedder_input_ids,
              inp.embedder_attention_mask)

\* Lines 115-119: the correction model on the frozen embedding and the
\* hypothesis.
LossNewEmbeddings(inp, val) ==
    Corrector(FrozenEmbeddings(inp),
              HypothesisInputIds(Hypothesis(inp, val)),
              HypothesisAttentionMask(HypothesisInputIds(Hypothesis(inp, val))))

\* Lines 122-127: the inversion model's forward pass.
LossOutputs(inp, val) ==
    InversionModelForward(FakeEmbedderInputs(inp), FakeEmbedderInputs(inp),
                          inp.labels, LossNewEmbeddings(inp, val))

\* Lines 73-128: the calls compute_loss makes, under gradient mode g; only
\* the embedding call is inside a with torch.no_grad() block.
ComputeLossCalls(inp, val, g) ==
    LET frozen == FrozenEmbeddings(inp)
        hyp == Hypothesis(inp, val)
        new == LossNewEmbeddings(inp, val)
        outputs == LossOutputs(inp, val)
    IN  <<Call("call_embedding_model",
               [input_ids |-> inp.embedder_input_ids,
                attention_mask |-> inp.embedder_attention_mask],
               frozen, FALSE),
          Call("inversion_trainer.model.generate",
               [inputs |-> hyp.inputs,
                generation_kwargs |-> hyp.generation_kwargs],
               hyp, g),
          Call("self.model",
               [embedding |-> new.embedding, input_ids |-> new.input_ids,
                attention_mask |-> new.attention_mask],
               new, g),
          Call("inversion_trainer.model",
               [embedder_input_ids |-> outputs.embedder_input_ids,
                embedder_attention_mask |-> outputs.embedder_attention_mask,
                labels |-> outputs.labels,
                frozen_embeddings |-> outputs.frozen_embeddings],
               outputs, g)>>

\* What inversion_trainer.model.generate can return for a batch of b rows:
\* b rows of one length, which the decoder, not the batch, decides.
GeneratedVals(b) ==
    UNION {[1..b -> [1..h -> Vocab]] : h \in 1..MaxHypLen}

\* A compute_loss that attaches the frozen embedding to the caller's batch.
ComputeLossInputsMutating(inp) ==
    ("frozen_embeddings" :> FrozenEmbeddings(inp)) @@ inp

\* Lines 66-128: what compute_loss leaves of the caller's mapping.  It only
\* reads it: the mapping handed to model.generate (89-93) is a new one.
ComputeLossInputs(inp) == inp

\* Lines 66-128: compute_loss(model, inputs, return_outputs).
compute_loss ==
    /\ tpc = "batch"
    /\ \E val \in GeneratedVals(inputs.input_ids.shape[1]) :
         /\ calls' = ComputeLossCalls(inputs, val, grad_enabled)
         /\ ret' = [op |-> "loss", outputs |-> calls'[Len(calls')].result]
    /\ call' = [op |-> "compute_loss", generation_kwargs |-> None]
    /\ inputs' = ComputeLossInputs(inputs)
    /\ tpc' = "returned"
    /\ UNCHANGED <<inv_model, inv_args, self, inputs_before, grad_enabled>>

\* ---- prediction_step --------------------------------------------------

\* Line 140: {key: value.to(self.args.device) for key, value in inputs.items()}
OnDevice(inp) == [k \in DOMAIN inp |-> To(inp[k], device)]

\* Lines 130-145: prediction_step(model, inputs, prediction_loss_only,
\* ignore_keys).  compute_loss runs on the moved copy of the batch, inside
\* with torch.no_grad(); the caller's mapping is not touched.
prediction_step ==
    /\ tpc = "batch"
    /\ \E val \in GeneratedVals(inputs.input_ids.shape[1]) :
         /\ calls' = ComputeLossCalls(OnDevice(inputs), val, FALSE)
         /\ ret' = <<[op |-> "loss", outputs |-> calls'[Len(calls')].result],
                     None, None>>
    /\ call' = [op |-> "prediction_step", generation_kwargs |-> None]
    /\ tpc' = "returned"
    /\ UNCHANGED <<inv_model, inv_args, self, inputs, inputs_before, grad_enabled>>

\* ---- specifications ---------------------------------------------------

TrainerIdle ==
    /\ tpc = "off"
    /\ inv_model = None
    /\ inv_args = None
    /\ self = NoTrainer
    /\ inputs = None
    /\ inputs_before = None
    /\ call = None
    /\ calls = << >>
    /\ ret = None
    /\ grad_enabled = TRUE

\* Before the constructor is called: an inversion trainer whose model may
\* or may not be frozen or flagged yet.
TrainerInit ==
    /\ tpc = "new"
    /\ inv_model \in [requires_grad : [1..NumParams -> BOOLEAN],
                      use_frozen_embeddings_as_input : BOOLEAN]
    /\ inv_args \in ArgsSet
    /\ self = NoTrainer
    /\ inputs = None
    /\ inputs_before = None
    /\ call = None
    /\ calls = << >>
    /\ ret = None
    /\ grad_enabled = TRUE

TrainerNext ==
    \/ (\E args \in ArgsSet : CorrectorTrainer(args)) /\ UNCHANGED launcherVars
    \/ NextBatch /\ UNCHANGED launcherVars
    \/ generate /\ UNCHANGED launcherVars
    \/ compute_loss /\ UNCHANGED launcherVars
    \/ prediction_step /\ UNCHANGED launcherVars
    \/ Continue /\ UNCHANGED launcherVars

Init == LauncherIdle /\ TrainerInit

Next == TrainerNext

\* The corrector trainer, driven by its harness.
Spec == Init /\ [][Next]_vars

LauncherSpecInit == LauncherInit /\ TrainerIdle

\* The launcher script.
LauncherSpec == LauncherSpecInit /\ [][LauncherNext]_vars

(***************************************************************************)
(*                        THE LAUNCHER'S PROPERTIES                        *)
(***************************************************************************)

\* The shards issued so far: the commands printed by run_cmd, in order.
Shards ==
    LET lines == SelectSeq(stdout, LAMBDA l : l.line = "cmd >>")
    IN  [k \in 1..Len(lines) |-> lines[k].cmd]

ShardEnd(s) == s.start_idx + s.num_samples

Min(a, b) == IF a < b THEN a ELSE b

\* How many indices of [0, MSMARCO_LENGTH) lie in the first k shards' ranges,
\* counted once per shard that holds them.
RECURSIVE CoveredBy(_)
CoveredBy(k) ==
    IF k = 0 THEN 0
    ELSE LET lo == Shards[k].start_idx
             hi == Min(ShardEnd(Shards[k]), MSMARCO_LENGTH)
         IN  CoveredBy(k - 1) + (IF hi > lo THEN hi - lo ELSE 0)

\* C1: shard i (issued in increasing i) has start_idx = i * shard_length and
\* num_samples = shard_length = ceil(MSMARCO_LENGTH / N_SHARDS) = 273544; no
\* two shards' ranges overlap; once all are issued every index of
\* [0, MSMARCO_LENGTH) is in exactly one range (the ranges are disjoint and
\* hold MSMARCO_LENGTH of those indices) and the last range ends at most
\* N_SHARDS - 1 past MSMARCO_LENGTH.
C1_ShardsPartitionDataset ==
    /\ shard_length = 273544
    /\ shard_length * N_SHARDS >= MSMARCO_LENGTH
    /\ (shard_length - 1) * N_SHARDS < MSMARCO_LENGTH
    /\ \A k \in 1..Len(Shards) :
         /\ Shards[k].start_idx = (k - 1) * shard_length
         /\ Shards[k].num_samples = shard_length
    /\ \A j, k \in 1..Len(Shards) :
         j # k => \/ ShardEnd(Shards[j]) <= Shards[k].start_idx
                  \/ ShardEnd(Shards[k]) <= Shards[j].start_idx
    /\ lpc = "done" =>
         /\ Len(Shards) = N_SHARDS
         /\ Shards[1].start_idx = 0
         /\ CoveredBy(N_SHARDS) = MSMARCO_LENGTH
         /\ ShardEnd(Shards[N_SHARDS]) - MSMARCO_LENGTH \in 0..(N_SHARDS - 1)

C1_Witness == lpc = "done" /\ Len(Shards) = N_SHARDS

FinalLines == SelectSeq(stdout, LAMBDA l : l.line = "successfully queued")

\* C2: a run that reaches its end has made exactly N_SHARDS (32) submissions
\* when ACTUALLY_RUN_COMMAND is true, each with time "168:00:00" and the flag
\* "requeue", and none when it is false; its last line reports 32 jobs and
\* says "(pretend)" exactly when the toggle is false.
C2_SubmissionsFollowToggle ==
    /\ ~ACTUALLY_RUN_COMMAND => submitted = << >>
    /\ \A k \in 1..Len(submitted) :
         /\ submitted[k].slurm_kwargs.time = "168:00:00"
         /\ "requeue" \in submitted[k].slurm_flags
    /\ lpc = "done" =>
         /\ Len(submitted) = IF ACTUALLY_RUN_COMMAND THEN N_SHARDS ELSE 0
         /\ ACTUALLY_RUN_COMMAND => Len(submitted) = 32
         /\ Len(FinalLines) = 1
         /\ stdout[Len(stdout)].line = "successfully queued"
         /\ stdout[Len(stdout)].jobs = 32
         /\ stdout[Len(stdout)].pretend = ~ACTUALLY_RUN_COMMAND

C2_Witness ==
    /\ lpc = "done"
    /\ ACTUALLY_RUN_COMMAND
    /\ Len(submitted) = N_SHARDS
    /\ ~stdout[Len(stdout)].pretend

\* C3: a submission that raises ends the run: the script stops at that
\* shard (nothing is enabled after it), the shards before it and only those
\* were submitted, no later shard is printed, and the final message is not
\* printed; no shard is ever passed over: whenever the loop has gone past a
\* shard in a real run, that shard was submitted.
C3_FailureStopsTheRun ==
    /\ \A k \in 1..Len(submitted) :
         submitted[k].cmd.start_idx = (k - 1) * shard_length
    /\ (ACTUALLY_RUN_COMMAND /\ lpc # "raised") => Len(submitted) = i
    /\ lpc = "raised" =>
         /\ ACTUALLY_RUN_COMMAND
         /\ Len(submitted) = i
         /\ Len(Shards) = i + 1
         /\ FinalLines = << >>
         /\ ~ENABLED LauncherNext
    /\ FinalLines # << >> => lpc = "done"

C3_Witness == lpc = "raised" /\ i = 5 /\ Len(submitted) = 5

(***************************************************************************)
(*                        THE TRAINER'S PROPERTIES                         *)
(***************************************************************************)

Returned(ops) == tpc = "returned" /\ call.op \in ops

\* The calls of the last operation made to callee fn.
CallsTo(fn) == SelectSeq(calls, LAMBDA c : c.fn = fn)

\* C4: a constructor call with mismatched precision flags raises, gives the
\* caller no instance and leaves inversion_trainer.model as it was before
\* the call.
C4_FailedInitLeavesModelUntouched ==
    [][tpc' = "assert_failed" => (self' = NoTrainer /\ inv_model' = inv_model)]_vars

\* C5: once a trainer has been constructed, every parameter of the inversion
\* model is non-trainable and use_frozen_embeddings_as_input is true, after
\* any sequence of generate, compute_loss and prediction_step calls.
C5_InversionModelStaysFrozen ==
    self # NoTrainer =>
        /\ \A p \in DOMAIN inv_model.requires_grad : ~inv_model.requires_grad[p]
        /\ inv_model.use_frozen_embeddings_as_input = TRUE

C5_Witness ==
    /\ Returned({"compute_loss"})
    /\ self # NoTrainer
    /\ \A p \in DOMAIN inv_model.requires_grad : ~inv_model.requires_grad[p]

\* C6: generate calls inversion_trainer.generate exactly once, on the
\* caller's batch with frozen_embeddings set to the correction model's output
\* for the frozen embedding and the batch's input_ids / attention_mask (not
\* to the frozen embedding itself), with the caller's generation_kwargs, and
\* returns what that call returns.
C6_GenerateDelegatesCorrectedBatch ==
    Returned({"generate"}) =>
        LET frozen == call_embedding_model(inputs_before.embedder_input_ids,
                                           inputs_before.embedder_attention_mask)
            corrected == Corrector(frozen, inputs_before.input_ids,
                                   inputs_before.attention_mask)
            made == CallsTo("inversion_trainer.generate")
        IN  /\ Len(made) = 1
            /\ made[1].args.inputs = inputs
            /\ DOMAIN made[1].args.inputs =
                   DOMAIN inputs_before \cup {"frozen_embeddings"}
            /\ made[1].args.inputs.frozen_embeddings = corrected
            /\ made[1].args.inputs.frozen_embeddings # frozen
            /\ \A f \in DOMAIN inputs_before \ {"frozen_embeddings"} :
                   made[1].args.inputs[f] = inputs_before[f]
            /\ made[1].args.generation_kwargs = call.generation_kwargs
            /\ ret = made[1].result

C6_Witness ==
    /\ Returned({"generate"})
    /\ "frozen_embeddings" \in DOMAIN inputs_before
    /\ inputs.frozen_embeddings # inputs_before.frozen_embeddings
    /\ Len(CallsTo("inversion_trainer.generate")) = 1

EmbedderFields == {"embedder_input_ids", "embedder_attention_mask"}

\* A tensor of the batch's real embedder inputs (moved to a device or not).
IsRealEmbedderInput(t) == t.op = "batch" /\ t.field \in EmbedderFields

\* Whether a real embedder input is part of what t was computed from other
\* than through the embedding model.
RECURSIVE Exposes(_)
Exposes(t) ==
    CASE t.op = "batch" -> t.field \in EmbedderFields
      [] t.op = "call_embedding_model" -> FALSE
      [] t.op = "cat" -> Exposes(t.src)
      [] t.op = "ne" -> Exposes(t.src)
      [] t.op = "inversion_trainer.model.generate" ->
             \E f \in DOMAIN t.inputs : Exposes(t.inputs[f])
      [] t.op = "self.model" ->
             Exposes(t.embedding) \/ Exposes(t.input_ids) \/ Exposes(t.attention_mask)
      [] OTHER -> FALSE

AllOnes(t, shape) ==
    /\ t.op = "ones"
    /\ Shape(t.val) = shape
    /\ \A r \in DOMAIN t.val : \A c \in DOMAIN t.val[r] : t.val[r][c] = 1

\* C7: in every compute_loss call the correction model is given the derived
\* hypothesis ids and mask, never the batch's real embedder inputs, which
\* reach it only through the frozen embedding; the inversion model's
\* generate and forward calls get the all-ones fake tensors as embedder
\* inputs.
C7_CorrectorNeverSeesEmbedderInputs ==
    Returned({"compute_loss", "prediction_step"}) =>
        LET corr == CallsTo("self.model")
            gen == CallsTo("inversion_trainer.model.generate")
            fwd == CallsTo("inversion_trainer.model")
            shape == inputs_before.input_ids.shape
        IN  /\ Len(corr) = 1 /\ Len(gen) = 1 /\ Len(fwd) = 1
            /\ ~IsRealEmbedderInput(corr[1].args.input_ids)
            /\ ~IsRealEmbedderInput(corr[1].args.attention_mask)
            /\ corr[1].args.input_ids.op = "cat"
            /\ corr[1].args.input_ids.src = gen[1].result
            /\ corr[1].args.attention_mask.op = "ne"
            /\ corr[1].args.attention_mask.src = corr[1].args.input_ids
            /\ ~Exposes(corr[1].args.input_ids)
            /\ ~Exposes(corr[1].args.attention_mask)
            /\ corr[1].args.embedding.op = "call_embedding_model"
            /\ IsRealEmbedderInput(corr[1].args.embedding.input_ids)
            /\ IsRealEmbedderInput(corr[1].args.embedding.attention_mask)
            /\ AllOnes(gen[1].args.inputs.embedder_input_ids, shape)
            /\ AllOnes(gen[1].args.inputs.embedder_attention_mask, shape)
            /\ AllOnes(fwd[1].args.embedder_input_ids, shape)
            /\ AllOnes(fwd[1].args.embedder_attention_mask, shape)

C7_Witness ==
    /\ Returned({"compute_loss"})
    /\ Len(CallsTo("self.model")) = 1
    /\ CallsTo("self.model")[1].args.input_ids.op = "cat"

\* hypothesis_input_ids of the last compute_loss: what the correction model
\* was given as input_ids.
HypothesisIds == CallsTo("self.model")[1].args.input_ids.val

\* What inversion_trainer.model.generate returned in the last compute_loss.
GeneratedIds == CallsTo("inversion_trainer.model.generate")[1].result.val

FakeTensorsAreOnesBL ==
    LET gen == CallsTo("inversion_trainer.model.generate")[1].args.inputs
    IN  /\ AllOnes(gen.embedder_input_ids, inputs_before.input_ids.shape)
        /\ AllOnes(gen.embedder_attention_mask, inputs_before.input_ids.shape)

LastColumnIsEos ==
    \A r \in DOMAIN HypothesisIds :
        /\ Len(HypothesisIds[r]) >= 1
        /\ HypothesisIds[r][Len(HypothesisIds[r])] = eos_token_id

C9_GenerateIsAllNoGrad ==
    [][(tpc = "batch" /\ tpc' = "returned" /\ call'.op = "generate") =>
          /\ \A k \in 1..Len(calls') : calls'[k].grad = FALSE
          /\ grad_enabled' = grad_enabled]_vars

\* C10 as stated: after generate or compute_loss returns, the caller's batch
\* carries a frozen_embeddings field set by the trainer and is otherwise
\* unchanged.
C10_BothOperationsAttachEmbedding ==
    Returned({"generate", "compute_loss"}) =>
        /\ "frozen_embeddings" \in DOMAIN inputs
        /\ inputs.frozen_embeddings.op # "batch"
        /\ \A f \in DOMAIN inputs_before \ {"frozen_embeddings"} :
               f \in DOMAIN inputs /\ inputs[f] = inputs_before[f]
        /\ DOMAIN inputs = DOMAIN inputs_before \cup {"frozen_embeddings"}

\* C10 as amended: generate mutates the caller's batch in place, setting
\* frozen_embeddings to the corrected embedding it hands to
\* inversion_trainer.generate and changing no other field; compute_loss (and
\* prediction_step) leave the caller's batch exactly as it was.
C10_OnlyGenerateAttachesEmbedding ==
    /\ Returned({"generate"}) =>
        /\ DOMAIN inputs = DOMAIN inputs_before \cup {"frozen_embeddings"}
        /\ inputs.frozen_embeddings.op = "self.model"
        /\ inputs.frozen_embeddings = ret.inputs.frozen_embeddings
        /\ \A f \in DOMAIN inputs_before \ {"frozen_embeddings"} :
               inputs[f] = inputs_before[f]
    /\ Returned({"compute_loss", "prediction_step"}) => inputs = inputs_before

C10_Witness ==
    /\ Returned({"compute_loss"})
    /\ "frozen_embeddings" \notin DOMAIN inputs
    /\ inputs = inputs_before

====
